---------------------------- MODULE Spec2Model ----------------------------
(***************************************************************************)
(* The rule no-allocation-in-props (lib/rules/no-allocation-in-props.js).  *)
(*                                                                         *)
(* The traversal engine walks a syntax tree in pre-order and dispatches    *)
(* the rule's four callbacks (BlockStatement, VariableDeclarator,          *)
(* JSXAttribute, CallExpression).  The tree is not fixed in advance: each  *)
(* step the engine either enters a node, leaves the innermost open node,   *)
(* or visits a leaf construct, so that every behaviour is the pre-order    *)
(* walk of some tree.  Nodes are identified by their source start offset   *)
(* (node.range[0]).  Of the open nodes only the program and the block      *)
(* statements are kept: a declarator or a usage under a statement that is  *)
(* not a block (for (const a = {};;) ..., a switch case) has the enclosing *)
(* block as its nearest block, which is how one block comes to hold two    *)
(* declarators of one name.                                                *)
(*                                                                         *)
(* One instance of the rule (one call of `create`) runs per configuration  *)
(* over the same walk; the closure state of each instance                  *)
(* (blockVariableNameSets), the reports it has made, and whether one of    *)
(* its callbacks has thrown, are functions of the configuration.           *)
(***************************************************************************)
EXTENDS Integers, Sequences, FiniteSets, TLC

\* ------------------------------------------------------------------ bounds
\* Highest source offset a node of the walked tree may start at.
MaxOffset == 5
\* Most variable declarators in a walked program.
MaxDeclarators == 2
\* Most attributes and calls in a walked program.
MaxUsages == 2
\* Most entries of a properties object passed to a factory call.
MaxProps == 1
\* Deepest nesting of conditionals in the expressions given to the classifier.
MaxNesting == 2

\* Identifiers used as property values in the walked programs.
Names == {"a", "b"}
\* The names the walked programs declare; b is used but never declared.
DeclaredNames == {"a"}

\* ------------------------------------------------------------- syntax tree
\* JavaScript's null / undefined where a node is expected.
Null == [type |-> "null"]

ArrayExpression == [type |-> "ArrayExpression"]
ObjectExpression == [type |-> "ObjectExpression"]
Literal == [type |-> "Literal"]
Identifier(name) == [type |-> "Identifier", name |-> name]
ConditionalExpression(test, consequent, alternate) ==
    [type |-> "ConditionalExpression", test |-> test,
     consequent |-> consequent, alternate |-> alternate]

\* Expressions without a conditional.
SimpleExprs == {ArrayExpression, ObjectExpression, Literal} \cup {Identifier(n) : n \in Names}

\* A conditional nested inside another one: c ? [] : 0.
InnerConditional == ConditionalExpression(Literal, ArrayExpression, Literal)

\* The conditionals of the walked programs:
\*   c ? [] : {}             both branches allocate
\*   c ? 0 : {}              the alternate alone allocates
\*   [] ? 0 : {}             the test is an allocation
\*   c ? (d ? [] : 0) : {}   the consequent is itself a conditional
Conditionals ==
    {ConditionalExpression(Literal, ArrayExpression, ObjectExpression),
     ConditionalExpression(Literal, Literal, ObjectExpression),
     ConditionalExpression(ArrayExpression, Literal, ObjectExpression),
     ConditionalExpression(Literal, InnerConditional, ObjectExpression)}

\* The expressions that occur as property values.
Exprs == SimpleExprs \cup Conditionals

\* The initializers of the declarators: none (let a;), [], {}, c ? [] : {} and
\* c ? (d ? [] : 0) : {}.
Initializers ==
    {Null, ArrayExpression, ObjectExpression,
     ConditionalExpression(Literal, ArrayExpression, ObjectExpression),
     ConditionalExpression(Literal, InnerConditional, ObjectExpression)}

\* The value of a JSX attribute: {expr}, a string literal, or none (<Foo bar />).
JSXExpressionContainer(expression) ==
    [type |-> "JSXExpressionContainer", expression |-> expression]
AttributeValues == {JSXExpressionContainer(e) : e \in Exprs} \cup {Literal, Null}

\* An entry of an object literal: key: value, or ...spread (which has no value).
Property(value) == [type |-> "Property", value |-> value]
SpreadElement == [type |-> "SpreadElement"]
Properties == {Property(e) : e \in Exprs} \cup {SpreadElement}

\* Sequences over S of length at most n.
SeqsUpTo(S, n) == UNION {[1..k -> S] : k \in 0..n}

\* --------------------------------------------------------------- options
\* context.options[0]: the three boolean options of the schema.
Configurations ==
    [allowArrays : BOOLEAN, allowObjects : BOOLEAN, ignoreDOMComponents : BOOLEAN]

violationMessageStore ==
    [array |-> "Props should not use array allocations",
     object |-> "Props should not use object allocations"]

\* What getNodeViolationType returns when there is no violation (null).
NoViolation == "null"

VARIABLES
    ancestors,              \* open nodes, outermost first: <<[type, start], ...>>
    offset,                 \* source offset of the next node
    blockVariableNameSets,  \* per configuration: block start -> [array, object]
    reports,                \* per configuration: sequence of context.report calls
    thrown,                 \* per configuration: a callback raised a TypeError
    visited,                \* how many declarators and usages the walk has met
    cur                     \* the node whose callback was dispatched last

vars == <<ancestors, offset, blockVariableNameSets, reports, thrown, visited, cur>>

\* ------------------------------------------------------------ the rule
setBlockVariableNameSet(sets, blockStart) ==
    [b \in DOMAIN sets \cup {blockStart} |->
        IF b = blockStart THEN [array |-> {}, object |-> {}] ELSE sets[b]]

RECURSIVE getNodeViolationType(_, _)

\* Mutant: the two allow flags are swapped.
getNodeViolationTypeSwappedFlags(configuration, node) ==
    IF node.type = "ConditionalExpression"
    THEN LET t == getNodeViolationType(configuration, node.test)
             c == getNodeViolationType(configuration, node.consequent)
         IN  IF t # NoViolation THEN t
             ELSE IF c # NoViolation THEN c
             ELSE getNodeViolationType(configuration, node.alternate)
    ELSE IF ~configuration.allowObjects /\ node.type = "ArrayExpression"
    THEN "array"
    ELSE IF ~configuration.allowArrays /\ node.type = "ObjectExpression"
    THEN "object"
    ELSE NoViolation

\* Mutant: allowArrays is not consulted.
getNodeViolationTypeArraysAlways(configuration, node) ==
    IF node.type = "ConditionalExpression"
    THEN LET t == getNodeViolationType(configuration, node.test)
             c == getNodeViolationType(configuration, node.consequent)
         IN  IF t # NoViolation THEN t
             ELSE IF c # NoViolation THEN c
             ELSE getNodeViolationType(configuration, node.alternate)
    ELSE IF node.type = "ArrayExpression"
    THEN "array"
    ELSE IF ~configuration.allowObjects /\ node.type = "ObjectExpression"
    THEN "object"
    ELSE NoViolation

\* Mutant: the alternate of a conditional is not classified.
getNodeViolationTypeNoAlternate(configuration, node) ==
    IF node.type = "ConditionalExpression"
    THEN LET t == getNodeViolationType(configuration, node.test)
             c == getNodeViolationType(configuration, node.consequent)
         IN  IF t # NoViolation THEN t ELSE c
    ELSE IF ~configuration.allowArrays /\ node.type = "ArrayExpression"
    THEN "array"
    ELSE IF ~configuration.allowObjects /\ node.type = "ObjectExpression"
    THEN "object"
    ELSE NoViolation

\* Mutant: the consequent of a conditional is classified before its test.
getNodeViolationTypeConsequentFirst(configuration, node) ==
    IF node.type = "ConditionalExpression"
    THEN LET t == getNodeViolationType(configuration, node.test)
             c == getNodeViolationType(configuration, node.consequent)
         IN  IF c # NoViolation THEN c
             ELSE IF t # NoViolation THEN t
             ELSE getNodeViolationType(configuration, node.alternate)
    ELSE IF ~configuration.allowArrays /\ node.type = "ArrayExpression"
    THEN "array"
    ELSE IF ~configuration.allowObjects /\ node.type = "ObjectExpression"
    THEN "object"
    ELSE NoViolation

getNodeViolationType(configuration, node) ==
    IF node.type = "ConditionalExpression"
    THEN LET t == getNodeViolationType(configuration, node.test)
             c == getNodeViolationType(configuration, node.consequent)
         IN  IF t # NoViolation THEN t
             ELSE IF c # NoViolation THEN c
             ELSE getNodeViolationType(configuration, node.alternate)
    ELSE IF ~configuration.allowArrays /\ node.type = "ArrayExpression"
    THEN "array"
    ELSE IF ~configuration.allowObjects /\ node.type = "ObjectExpression"
    THEN "object"
    ELSE NoViolation

addVariableNameToSet(sets, violationType, variableName, blockStart) ==
    [sets EXCEPT ![blockStart][violationType] = @ \cup {variableName}]

\* Array.prototype.reverse
Reverse(s) == [i \in 1..Len(s) |-> s[Len(s) + 1 - i]]

IsBlockStatement(ancestor) == ancestor.type = "BlockStatement"

\* Mutant: the chain is not reversed, so the outermost block comes first.
getBlockStatementAncestorsOutermostFirst(nodeAncestors) ==
    SelectSeq(nodeAncestors, IsBlockStatement)

\* context.getAncestors() is the chain of open nodes, outermost first.
getBlockStatementAncestors(nodeAncestors) ==
    SelectSeq(Reverse(nodeAncestors), IsBlockStatement)

\* Object.keys(blockSets): the keys in insertion order.
violationTypes == <<"array", "object">>

\* violationTypes.find(...): the callback runs on each type until it returns
\* true; it reports when the set of that type holds the name.  The result is
\* the type found (or NoViolation) and the reports made on the way.
RECURSIVE FindType(_, _, _, _)

\* Mutant: forEach in place of find, so the search goes on after a hit.
FindTypeForEach(blockSets, node, name, types) ==
    IF types = <<>> THEN [found |-> NoViolation, reports |-> <<>>]
    ELSE LET rest == FindType(blockSets, node, name, Tail(types))
         IN  IF name \in blockSets[Head(types)]
             THEN [found |-> Head(types),
                   reports |-> <<[node |-> node,
                                  message |-> violationMessageStore[Head(types)]]>>
                               \o rest.reports]
             ELSE rest

FindType(blockSets, node, name, types) ==
    IF types = <<>> THEN [found |-> NoViolation, reports |-> <<>>]
    ELSE IF name \in blockSets[Head(types)]
    THEN [found |-> Head(types),
          reports |-> <<[node |-> node, message |-> violationMessageStore[Head(types)]]>>]
    ELSE FindType(blockSets, node, name, Tail(types))

reportVariableViolation(sets, node, name, blockStart) ==
    FindType(sets[blockStart], node, name, violationTypes)

\* getBlockStatementAncestors(node).find(...): the callback runs on each block,
\* innermost first, until it returns a type.  The result is the reports made.
RECURSIVE FindBlock(_, _, _, _)
FindBlock(sets, node, name, blocks) ==
    IF blocks = <<>> THEN <<>>
    ELSE LET r == reportVariableViolation(sets, node, name, Head(blocks).start)
         IN  IF r.found # NoViolation THEN r.reports
             ELSE r.reports \o FindBlock(sets, node, name, Tail(blocks))

\* Every block with a record, innermost (latest start) first.
RECURSIVE BlocksOf(_)
BlocksOf(starts) ==
    IF starts = {} THEN <<>>
    ELSE LET last == CHOOSE k \in starts : \A j \in starts : j <= k
         IN  <<[type |-> "BlockStatement", start |-> last]>> \o BlocksOf(starts \ {last})

\* Mutant: every recorded block is searched, not the enclosing ones alone.
findVariableViolationAnyBlock(sets, nodeAncestors, node, name) ==
    FindBlock(sets, node, name, BlocksOf(DOMAIN sets))

\* Mutant: the enclosing blocks are searched outermost first.
findVariableViolationOutermostFirst(sets, nodeAncestors, node, name) ==
    FindBlock(sets, node, name, SelectSeq(nodeAncestors, IsBlockStatement))

\* Mutant: the nearest enclosing block alone is searched.
findVariableViolationNearestOnly(sets, nodeAncestors, node, name) ==
    LET blocks == getBlockStatementAncestors(nodeAncestors)
    IN  FindBlock(sets, node, name, IF blocks = << >> THEN << >> ELSE <<blocks[1]>>)

findVariableViolation(sets, nodeAncestors, node, name) ==
    FindBlock(sets, node, name, getBlockStatementAncestors(nodeAncestors))

\* The reports of one usage site, each marked with the site that gave rise to it.
Tag(made, site) ==
    [i \in DOMAIN made |->
        [node |-> made[i].node, message |-> made[i].message, site |-> site]]

\* ------------------------------------------------- callbacks, per instance
\* Mutant: entering a block creates no record.
BlockStatementSetsNoRecord(sets, node) == sets

\* BlockStatement(node)
BlockStatementSets(sets, node) == setBlockVariableNameSet(sets, node.start)

\* Mutant: the kind of the declaration is not consulted.
VariableDeclaratorSetsAnyKind(configuration, sets, nodeAncestors, node) ==
    IF node.init = Null THEN sets
    ELSE LET blockAncestors == getBlockStatementAncestors(nodeAncestors)
             variableViolationType == getNodeViolationType(configuration, node.init)
         IN  IF /\ Len(blockAncestors) > 0
                /\ variableViolationType # NoViolation
             THEN addVariableNameToSet(sets, variableViolationType, node.id.name,
                                       blockAncestors[1].start)
             ELSE sets

\* Mutant: outside every block the name is recorded for the program node.
VariableDeclaratorSetsProgramScope(configuration, sets, nodeAncestors, node) ==
    IF node.init = Null THEN sets
    ELSE LET blockAncestors == getBlockStatementAncestors(nodeAncestors)
             variableViolationType == getNodeViolationType(configuration, node.init)
             scope == IF Len(blockAncestors) > 0 THEN blockAncestors[1].start
                      ELSE nodeAncestors[1].start
         IN  IF /\ variableViolationType # NoViolation
                /\ node.parent.kind = "const"
             THEN addVariableNameToSet(
                      IF scope \in DOMAIN sets THEN sets
                      ELSE setBlockVariableNameSet(sets, scope),
                      variableViolationType, node.id.name, scope)
             ELSE sets

\* Mutant: a declarator whose initializer is no violation takes its name out
\* of every record, as if the new binding hid the recorded ones.
VariableDeclaratorSetsShadowing(configuration, sets, nodeAncestors, node) ==
    IF node.init = Null THEN sets
    ELSE LET blockAncestors == getBlockStatementAncestors(nodeAncestors)
             variableViolationType == getNodeViolationType(configuration, node.init)
         IN  IF /\ Len(blockAncestors) > 0
                /\ variableViolationType # NoViolation
                /\ node.parent.kind = "const"
             THEN addVariableNameToSet(sets, variableViolationType, node.id.name,
                                       blockAncestors[1].start)
             ELSE IF variableViolationType = NoViolation
             THEN [b \in DOMAIN sets |->
                      [array |-> sets[b].array \ {node.id.name},
                       object |-> sets[b].object \ {node.id.name}]]
             ELSE sets

\* VariableDeclarator(node)
VariableDeclaratorSets(configuration, sets, nodeAncestors, node) ==
    IF node.init = Null THEN sets
    ELSE LET blockAncestors == getBlockStatementAncestors(nodeAncestors)
             variableViolationType == getNodeViolationType(configuration, node.init)
         IN  IF /\ Len(blockAncestors) > 0
                /\ variableViolationType # NoViolation
                /\ node.parent.kind = "const"
             THEN addVariableNameToSet(sets, variableViolationType, node.id.name,
                                       blockAncestors[1].start)
             ELSE sets

\* JSXAttribute(node): the early return for a DOM component.
JSXAttributeSkipped(configuration, node) ==
    configuration.ignoreDOMComponents /\ node.parentIsDOMComponent

\* JSXAttribute(node): node.value.expression.type is read without a check, so
\* an attribute with no value (null) or with a string literal value (whose
\* expression is undefined) raises a TypeError.
JSXAttributeThrows(configuration, node) ==
    /\ ~JSXAttributeSkipped(configuration, node)
    /\ \/ node.value = Null
       \/ "expression" \notin DOMAIN node.value

\* JSXAttribute(node): the reports made.
JSXAttributeReports(configuration, sets, nodeAncestors, node) ==
    IF JSXAttributeSkipped(configuration, node) \/ JSXAttributeThrows(configuration, node)
    THEN <<>>
    ELSE LET valueNode == node.value.expression
             nodeViolationType == getNodeViolationType(configuration, valueNode)
         IN  IF valueNode.type = "Identifier"
             THEN findVariableViolation(sets, nodeAncestors, node.start, valueNode.name)
             ELSE IF nodeViolationType # NoViolation
             THEN <<[node |-> node.start,
                     message |-> violationMessageStore[nodeViolationType]]>>
             ELSE <<>>

\* Mutant: the early return for a host element is missing.
CallExpressionSkippedNoDOMCheck(configuration, node) ==
    \/ ~node.isCreateElement
    \/ Len(node.arguments) < 2
    \/ node.arguments[2].type # "ObjectExpression"

\* CallExpression(node): the three early returns.
CallExpressionSkipped(configuration, node) ==
    \/ ~node.isCreateElement
    \/ Len(node.arguments) = 0
    \/ configuration.ignoreDOMComponents /\ node.arguments[1].type = "Literal"
    \/ Len(node.arguments) < 2
    \/ node.arguments[2].type # "ObjectExpression"

\* The body of propsArg.properties.forEach for one entry: the reports made.
PropertyReports(configuration, sets, nodeAncestors, node, prop) ==
    IF "value" \notin DOMAIN prop THEN <<>>
    ELSE LET nodeViolationType == getNodeViolationType(configuration, prop.value)
         IN  IF prop.value.type = "Identifier"
             THEN findVariableViolation(sets, nodeAncestors, node.start, prop.value.name)
             ELSE IF nodeViolationType # NoViolation
             THEN <<[node |-> prop.start,
                     message |-> violationMessageStore[nodeViolationType]]>>
             ELSE <<>>

\* propsArg.properties.forEach(...): the reports of the entries from index i on.
RECURSIVE ForEachProperty(_, _, _, _, _)
ForEachProperty(configuration, sets, nodeAncestors, node, i) ==
    LET properties == node.arguments[2].properties
    IN  IF i > Len(properties) THEN <<>>
        ELSE Tag(PropertyReports(configuration, sets, nodeAncestors, node, properties[i]),
                 properties[i].start)
             \o ForEachProperty(configuration, sets, nodeAncestors, node, i + 1)

\* CallExpression(node): the reports made.
CallExpressionReports(configuration, sets, nodeAncestors, node) ==
    IF CallExpressionSkipped(configuration, node) THEN <<>>
    ELSE ForEachProperty(configuration, sets, nodeAncestors, node, 1)

\* ------------------------------------------------------------ the walk
Program == [type |-> "Program", start |-> 0]

Init ==
    /\ ancestors = <<Program>>
    /\ offset = 1
    /\ blockVariableNameSets = [c \in Configurations |-> << >>]
    /\ reports = [c \in Configurations |-> << >>]
    /\ thrown = [c \in Configurations |-> FALSE]
    /\ visited = [declarators |-> 0, usages |-> 0]
    /\ cur = Program

\* The engine enters a block statement and dispatches BlockStatement(node).
BlockStatement ==
    /\ offset <= MaxOffset
    /\ LET node == [type |-> "BlockStatement", start |-> offset]
       IN  /\ blockVariableNameSets' =
                [c \in Configurations |->
                    IF thrown[c] THEN blockVariableNameSets[c]
                    ELSE BlockStatementSets(blockVariableNameSets[c], node)]
           /\ ancestors' = Append(ancestors, node)
           /\ cur' = node
    /\ offset' = offset + 1
    /\ UNCHANGED <<reports, thrown, visited>>

\* The engine leaves the innermost open node: the rule listens to no exit.
Leave ==
    /\ Len(ancestors) > 1
    /\ ancestors' = SubSeq(ancestors, 1, Len(ancestors) - 1)
    /\ cur' = Null
    /\ UNCHANGED <<offset, blockVariableNameSets, reports, thrown, visited>>

\* The engine dispatches VariableDeclarator(node): kind name = init.
VariableDeclarator(kind, name, init) ==
    /\ offset <= MaxOffset
    /\ visited.declarators < MaxDeclarators
    /\ visited' = [visited EXCEPT !.declarators = @ + 1]
    /\ LET node == [type |-> "VariableDeclarator", start |-> offset,
                    id |-> Identifier(name), init |-> init,
                    parent |-> [type |-> "VariableDeclaration", kind |-> kind]]
       IN  /\ blockVariableNameSets' =
                [c \in Configurations |->
                    IF thrown[c] THEN blockVariableNameSets[c]
                    ELSE VariableDeclaratorSets(c, blockVariableNameSets[c], ancestors, node)]
           /\ cur' = node
    /\ offset' = offset + 1
    /\ UNCHANGED <<ancestors, reports, thrown>>

\* Mutant: an instance that reports for the attribute empties its records.
JSXAttributeForgetting(parentIsDOMComponent, value) ==
    /\ offset <= MaxOffset
    /\ visited.usages < MaxUsages
    /\ visited' = [visited EXCEPT !.usages = @ + 1]
    /\ LET node == [type |-> "JSXAttribute", start |-> offset,
                    parentIsDOMComponent |-> parentIsDOMComponent, value |-> value]
           made == [c \in Configurations |->
                       IF thrown[c] THEN << >>
                       ELSE Tag(JSXAttributeReports(c, blockVariableNameSets[c], ancestors, node),
                                node.start)]
       IN  /\ reports' = [c \in Configurations |-> reports[c] \o made[c]]
           /\ blockVariableNameSets' =
                [c \in Configurations |->
                    IF made[c] = << >> THEN blockVariableNameSets[c]
                    ELSE [b \in DOMAIN blockVariableNameSets[c] |->
                             [array |-> {}, object |-> {}]]]
           /\ thrown' = [c \in Configurations |-> thrown[c] \/ JSXAttributeThrows(c, node)]
           /\ cur' = node
    /\ offset' = offset + 1
    /\ UNCHANGED ancestors

\* The engine dispatches JSXAttribute(node).
JSXAttribute(parentIsDOMComponent, value) ==
    /\ offset <= MaxOffset
    /\ visited.usages < MaxUsages
    /\ visited' = [visited EXCEPT !.usages = @ + 1]
    /\ LET node == [type |-> "JSXAttribute", start |-> offset,
                    parentIsDOMComponent |-> parentIsDOMComponent, value |-> value]
       IN  /\ reports' =
                [c \in Configurations |->
                    IF thrown[c] THEN reports[c]
                    ELSE reports[c] \o
                         Tag(JSXAttributeReports(c, blockVariableNameSets[c], ancestors, node),
                             node.start)]
           /\ thrown' = [c \in Configurations |-> thrown[c] \/ JSXAttributeThrows(c, node)]
           /\ cur' = node
    /\ offset' = offset + 1
    /\ UNCHANGED <<ancestors, blockVariableNameSets>>

\* The arguments of a factory call: none, the component alone, or the component
\* and a second argument that is an object literal or something else.  The
\* entries of the object literal start at the offsets after the call's.
Components == {Literal, Identifier("Foo")}

ObjectLiteral(start, properties) ==
    [type |-> "ObjectExpression",
     properties |-> [i \in DOMAIN properties |->
                        [f \in DOMAIN properties[i] \cup {"start"} |->
                            IF f = "start" THEN start + i ELSE properties[i][f]]]]

Arguments(start) ==
    {<< >>}
    \cup {<<f>> : f \in Components}
    \cup {<<f, Identifier("a")>> : f \in Components}
    \cup {<<f, ObjectLiteral(start, ps)>> :
            f \in Components, ps \in SeqsUpTo(Properties, MaxProps)}

\* The engine dispatches CallExpression(node).
CallExpression(isCreateElement, arguments) ==
    /\ visited.usages < MaxUsages
    /\ visited' = [visited EXCEPT !.usages = @ + 1]
    /\ LET node == [type |-> "CallExpression", start |-> offset,
                    isCreateElement |-> isCreateElement, arguments |-> arguments]
           size == IF Len(arguments) = 2 /\ "properties" \in DOMAIN arguments[2]
                   THEN Len(arguments[2].properties) ELSE 0
       IN  /\ offset + size <= MaxOffset
           /\ reports' =
                [c \in Configurations |->
                    IF thrown[c] THEN reports[c]
                    ELSE reports[c] \o
                         CallExpressionReports(c, blockVariableNameSets[c], ancestors, node)]
           /\ cur' = node
           /\ offset' = offset + 1 + size
    /\ UNCHANGED <<ancestors, blockVariableNameSets, thrown>>

DeclarationKinds == {"const", "let", "var"}

Next ==
    \/ BlockStatement
    \/ Leave
    \/ \E kind \in DeclarationKinds, name \in DeclaredNames, init \in Initializers :
          VariableDeclarator(kind, name, init)
    \/ \E parentIsDOMComponent \in BOOLEAN, value \in AttributeValues :
          JSXAttribute(parentIsDOMComponent, value)
    \/ \E arguments \in Arguments(offset) : CallExpression(TRUE, arguments)
    \/ CallExpression(FALSE, << >>)

Spec == Init /\ [][Next]_vars

\* ---------------------------------------------------- reading the state
\* The configuration with every option at its default.
Defaults == [allowArrays |-> FALSE, allowObjects |-> FALSE, ignoreDOMComponents |-> FALSE]

\* Configuration c with option f set to v.
With(c, f, v) == [c EXCEPT ![f] = v]

\* Instance c is still walking: none of its callbacks has thrown.
Running(c) == ~thrown[c]

Range(s) == {s[i] : i \in DOMAIN s}

\* The property-value sites of the node dispatched last: the attribute itself
\* when its value is an expression container; the entries with a value of the
\* properties object of a factory call.  host tells whether the owner is a
\* host element (a DOM element, a literal tag).
CurSites ==
    IF cur.type = "JSXAttribute"
    THEN IF cur.value.type = "JSXExpressionContainer"
         THEN {[site |-> cur.start, value |-> cur.value.expression,
                host |-> cur.parentIsDOMComponent]}
         ELSE {}
    ELSE IF /\ cur.type = "CallExpression"
            /\ cur.isCreateElement
            /\ Len(cur.arguments) = 2
            /\ "properties" \in DOMAIN cur.arguments[2]
    THEN LET properties == cur.arguments[2].properties
         IN  {[site |-> properties[i].start, value |-> properties[i].value,
               host |-> cur.arguments[1].type = "Literal"] :
                 i \in {j \in DOMAIN properties : properties[j].type = "Property"}}
    ELSE {}

\* Instance c skips site s as belonging to a host element.
Skipped(c, s) == c.ignoreDOMComponents /\ s.host

\* The reports of instance c that site gave rise to.
SiteReports(c, site) == SelectSeq(reports[c], LAMBDA r : r.site = site)

\* The reports of instance c with the message of kind.
KindReports(c, kind) ==
    SelectSeq(reports[c], LAMBDA r : r.message = violationMessageStore[kind])

\* A report of kind anchored at node, made for site.
Report(node, kind, site) ==
    [node |-> node, message |-> violationMessageStore[kind], site |-> site]

Kinds == {"array", "object"}

\* The block statements open around the node dispatched last.
AncestorBlocks == {b \in Range(ancestors) : b.type = "BlockStatement"}

\* The blocks whose record, in instance c, holds name under some kind.
Holding(c, blocks, name) ==
    {b \in blocks : \E k \in Kinds : name \in blockVariableNameSets[c][b.start][k]}

\* The innermost of a set of nested blocks: the one that starts last.
Innermost(blocks) == CHOOSE b \in blocks : \A b2 \in blocks : b2.start <= b.start

\* Every block entered so far.
EnteredBlocks(c) == {[type |-> "BlockStatement", start |-> k] : k \in DOMAIN blockVariableNameSets[c]}

\* ------------------------------------------------------------------ C1
\* C1: a direct array (object) literal at a property-value site that is not
\* skipped as a host element, with allowArrays (allowObjects) false, gives
\* exactly one report for that site, with the array (object) message,
\* anchored at the site.
C1_DirectLiteralReportedOnce ==
    \A c \in Configurations : Running(c) =>
        \A s \in CurSites : ~Skipped(c, s) =>
            /\ (s.value.type = "ArrayExpression" /\ ~c.allowArrays)
                  => SiteReports(c, s.site) = <<Report(s.site, "array", s.site)>>
            /\ (s.value.type = "ObjectExpression" /\ ~c.allowObjects)
                  => SiteReports(c, s.site) = <<Report(s.site, "object", s.site)>>

\* A factory call whose properties object holds a direct array literal has
\* been handled by the default instance, after an earlier usage.
C1_Witness ==
    /\ Running(Defaults)
    /\ cur.type = "CallExpression"
    /\ visited.usages = 2
    /\ \E s \in CurSites :
          /\ s.value.type = "ArrayExpression"
          /\ SiteReports(Defaults, s.site) # << >>

\* ------------------------------------------------------------------ C2
\* C2: when a name bound by const to a disallowed literal in an enclosing
\* block (its record holds the name) is used as a bare identifier at a
\* property-value site that is not skipped, exactly one report is made for
\* that usage, of the kind of the binding the name resolves to (the innermost
\* enclosing block holding it), anchored at the usage site.
C2_BoundNameReportedAtUsage ==
    \A c \in Configurations : Running(c) =>
        \A s \in CurSites :
            (/\ ~Skipped(c, s)
             /\ s.value.type = "Identifier"
             /\ Holding(c, AncestorBlocks, s.value.name) # {})
            => \E k \in Kinds :
                  /\ s.value.name \in blockVariableNameSets[c][
                        Innermost(Holding(c, AncestorBlocks, s.value.name)).start][k]
                  /\ SiteReports(c, s.site) = <<Report(s.site, k, s.site)>>

\* ------------------------------------------------------------------ C3
\* C3 as stated: with allowArrays true there is no array report and the
\* object reports are exactly those of the instance with allowArrays false
\* (the other options alike); symmetrically for allowObjects.
C3_OtherKindUnchanged ==
    \A c \in Configurations :
        /\ c.allowArrays =>
              /\ KindReports(c, "array") = << >>
              /\ KindReports(c, "object")
                    = KindReports(With(c, "allowArrays", FALSE), "object")
        /\ c.allowObjects =>
              /\ KindReports(c, "object") = << >>
              /\ KindReports(c, "array")
                    = KindReports(With(c, "allowObjects", FALSE), "array")

\* The reports of instance c are those of instance c0 with the reports of
\* kind removed, but for reports of the other kind at sites where c0 reported
\* kind.
SuppressedIn(c, c0, kind, other) ==
    /\ KindReports(c, kind) = << >>
    /\ \A r \in Range(KindReports(c0, other)) : r \in Range(reports[c])
    /\ \A r \in Range(reports[c]) :
          \/ r \in Range(reports[c0])
          \/ Report(r.node, kind, r.site) \in Range(reports[c0])

\* C3 as amended: with allowArrays true there is no array report, every
\* object report of the instance with allowArrays false is still made, and
\* any further report is an object report at a site where that instance
\* reported an array; symmetrically for allowObjects.
C3_KindSuppressedOtherKept ==
    \A c \in Configurations :
        /\ c.allowArrays => SuppressedIn(c, With(c, "allowArrays", FALSE), "array", "object")
        /\ c.allowObjects => SuppressedIn(c, With(c, "allowObjects", FALSE), "object", "array")

\* With allowArrays true a name bound to an array literal was used: the
\* default instance reported an array at the site and this one nothing, while
\* an object report of the default instance was kept.
C3_Witness ==
    LET c == With(Defaults, "allowArrays", TRUE)
    IN  /\ Running(c)
        /\ \E s \in CurSites :
              /\ s.value.type = "Identifier"
              /\ SiteReports(Defaults, s.site) = <<Report(s.site, "array", s.site)>>
              /\ SiteReports(c, s.site) = << >>
        /\ KindReports(c, "object") # << >>
        /\ KindReports(c, "object") = KindReports(Defaults, "object")

\* ------------------------------------------------------------------ C4
\* C4: with ignoreDOMComponents true a site owned by a host element gets no
\* report, be its value a literal or a bound identifier; a site owned by a
\* user-defined component gets the reports it gets with the option false, in
\* the attribute shape and in the factory-call shape.
C4_HostSitesSilentOthersAlike ==
    \A c \in Configurations : (c.ignoreDOMComponents /\ Running(c)) =>
        \A s \in CurSites :
            /\ s.host => SiteReports(c, s.site) = << >>
            /\ (~s.host /\ Running(With(c, "ignoreDOMComponents", FALSE)))
                  => SiteReports(c, s.site)
                        = SiteReports(With(c, "ignoreDOMComponents", FALSE), s.site)

\* A factory call with a literal tag passed a bound name: reported by the
\* default instance, silent with ignoreDOMComponents true.
C4_Witness ==
    LET c == With(Defaults, "ignoreDOMComponents", TRUE)
    IN  /\ Running(c) /\ Running(Defaults)
        /\ cur.type = "CallExpression"
        /\ \E s \in CurSites :
              /\ s.host
              /\ s.value.type = "Identifier"
              /\ SiteReports(Defaults, s.site) # << >>
              /\ SiteReports(c, s.site) = << >>

\* ------------------------------------------------------------------ C5
\* C5: an identifier used at a property-value site is reported only if the
\* record of a block enclosing the site holds its name; a name held only by
\* records of blocks that do not enclose the site (siblings, descendants)
\* gives no report.
C5_OnlyEnclosingBlocksResolve ==
    \A c \in Configurations : Running(c) =>
        \A s \in CurSites :
            (/\ s.value.type = "Identifier"
             /\ Holding(c, AncestorBlocks, s.value.name) = {})
            => SiteReports(c, s.site) = << >>

\* The name used is held by the record of a block that is not open (a sibling
\* or a descendant of the site's block) and by no enclosing block, the site is
\* inside a block, and nothing was reported.
C5_Witness ==
    /\ Running(Defaults)
    /\ AncestorBlocks # {}
    /\ \E s \in CurSites :
          /\ s.value.type = "Identifier"
          /\ Holding(Defaults, AncestorBlocks, s.value.name) = {}
          /\ Holding(Defaults, EnteredBlocks(Defaults), s.value.name) # {}
          /\ SiteReports(Defaults, s.site) = << >>

\* ------------------------------------------------------------------ C6
\* C6: when records of several enclosing blocks hold the name, the one report
\* made has a kind under which the innermost of them holds it; the outer
\* blocks contribute nothing.
C6_InnermostBlockWins ==
    \A c \in Configurations : Running(c) =>
        \A s \in CurSites :
            (/\ ~Skipped(c, s)
             /\ s.value.type = "Identifier"
             /\ Holding(c, AncestorBlocks, s.value.name) # {})
            => /\ Len(SiteReports(c, s.site)) = 1
               /\ \E k \in Kinds :
                     /\ SiteReports(c, s.site)[1].message = violationMessageStore[k]
                     /\ s.value.name \in blockVariableNameSets[c][
                           Innermost(Holding(c, AncestorBlocks, s.value.name)).start][k]

\* Two enclosing blocks hold the name, the inner one as an object only and
\* the outer one as an array only, and the report made is the object one.
C6_Witness ==
    /\ Running(Defaults)
    /\ \E s \in CurSites :
          /\ s.value.type = "Identifier"
          /\ \E inner, outer \in Holding(Defaults, AncestorBlocks, s.value.name) :
                /\ outer.start < inner.start
                /\ s.value.name \notin blockVariableNameSets[Defaults][inner.start].array
                /\ s.value.name \notin blockVariableNameSets[Defaults][outer.start].object
          /\ Len(SiteReports(Defaults, s.site)) = 1
          /\ SiteReports(Defaults, s.site)[1].message = violationMessageStore.object

\* ------------------------------------------------------------------ C7
\* Expression e is an array or object literal that configuration c disallows.
Disallowed(c, e) ==
    \/ e.type = "ArrayExpression" /\ ~c.allowArrays
    \/ e.type = "ObjectExpression" /\ ~c.allowObjects

LiteralKind(e) == IF e.type = "ArrayExpression" THEN "array" ELSE "object"

\* The kinds of the disallowed literals that e is or, through conditionals, holds.
RECURSIVE KindsIn(_, _)
KindsIn(c, e) ==
    IF e.type = "ConditionalExpression"
    THEN KindsIn(c, e.test) \cup KindsIn(c, e.consequent) \cup KindsIn(c, e.alternate)
    ELSE IF Disallowed(c, e) THEN {LiteralKind(e)}
    ELSE {}

\* A conditional whose test is no disallowed literal and whose consequent or
\* alternate is one.
BranchAllocates(c, e) ==
    /\ e.type = "ConditionalExpression"
    /\ ~Disallowed(c, e.test)
    /\ Disallowed(c, e.consequent) \/ Disallowed(c, e.alternate)

\* The kinds of the consequent and the alternate of e that are disallowed literals.
BranchKinds(c, e) ==
    {LiteralKind(b) : b \in {x \in {e.consequent, e.alternate} : Disallowed(c, x)}}

\* The kinds the amended claim allows for e: those found in the consequent
\* when it is or holds a disallowed literal, else that of the alternate.
FirstBranchKinds(c, e) ==
    IF KindsIn(c, e.consequent) # {} THEN KindsIn(c, e.consequent)
    ELSE KindsIn(c, e.alternate)

\* The node dispatched last is a const declarator inside a block.
ConstInBlock ==
    /\ cur.type = "VariableDeclarator"
    /\ cur.parent.kind = "const"
    /\ AncestorBlocks # {}

\* The record, in instance c, of the innermost open block.
NearestRecord(c) == blockVariableNameSets[c][Innermost(AncestorBlocks).start]

\* C7 as stated: such a conditional at a site gives a report of the kind of a
\* literal branch; as a const initializer it binds the name under the kind of
\* a literal branch.
C7_ConditionalBranchKind ==
    \A c \in Configurations : Running(c) =>
        /\ \A s \in CurSites : (~Skipped(c, s) /\ BranchAllocates(c, s.value)) =>
              \E k \in BranchKinds(c, s.value) :
                  SiteReports(c, s.site) = <<Report(s.site, k, s.site)>>
        /\ (ConstInBlock /\ BranchAllocates(c, cur.init)) =>
              \E k \in BranchKinds(c, cur.init) : cur.id.name \in NearestRecord(c)[k]

\* C7 as amended: the test holding no disallowed literal, the one report is of
\* a kind found in the consequent when the consequent is a disallowed literal
\* or a conditional holding one, and otherwise of the kind of the alternate;
\* as a const initializer in a block the conditional records the name under
\* such a kind.
C7_ConditionalFirstBranchKind ==
    \A c \in Configurations : Running(c) =>
        /\ \A s \in CurSites :
              (/\ ~Skipped(c, s)
               /\ BranchAllocates(c, s.value)
               /\ KindsIn(c, s.value.test) = {})
              => \E k \in FirstBranchKinds(c, s.value) :
                    SiteReports(c, s.site) = <<Report(s.site, k, s.site)>>
        /\ (/\ ConstInBlock
            /\ BranchAllocates(c, cur.init)
            /\ KindsIn(c, cur.init.test) = {})
           => \E k \in FirstBranchKinds(c, cur.init) : cur.id.name \in NearestRecord(c)[k]

\* An attribute whose value is c ? 0 : {} was reported as an object.
C7_Witness ==
    /\ Running(Defaults)
    /\ cur.type = "JSXAttribute"
    /\ \E s \in CurSites :
          /\ BranchAllocates(Defaults, s.value)
          /\ ~Disallowed(Defaults, s.value.consequent)
          /\ s.value.consequent.type # "ConditionalExpression"
          /\ SiteReports(Defaults, s.site) = <<Report(s.site, "object", s.site)>>

\* ------------------------------------------------------------------ C8
\* C8: over the whole walk no two reports of an instance come from the same
\* usage site.
C8_AtMostOneReportPerSite ==
    \A c \in Configurations :
        \A i, j \in DOMAIN reports[c] :
            reports[c][i].site = reports[c][j].site => i = j

\* A name held under both kinds by the nearest block was used and reported.
C8_Witness ==
    /\ Running(Defaults)
    /\ \E s \in CurSites :
          /\ s.value.type = "Identifier"
          /\ AncestorBlocks # {}
          /\ \A k \in Kinds : s.value.name \in NearestRecord(Defaults)[k]
          /\ Len(SiteReports(Defaults, s.site)) = 1

\* ------------------------------------------------------------------ C9
\* C9: every report is anchored at the node of the usage site it was made
\* for: the attribute, or the entry of the properties object.
C9_AnchoredAtUsageSite ==
    \A c \in Configurations :
        \A r \in Range(reports[c]) : r.node = r.site

\* ------------------------------------------------------------------ C10
\* C10: no record holds a name under both kinds; once a const declarator has
\* recorded a name under a kind, the record holds the name under that kind
\* alone (the last recording wins).
C10_OneKindPerName ==
    \A c \in Configurations : Running(c) =>
        /\ \A b \in DOMAIN blockVariableNameSets[c] :
              blockVariableNameSets[c][b].array \cap blockVariableNameSets[c][b].object = {}
        /\ (ConstInBlock /\ Disallowed(c, cur.init)) =>
              \A k \in Kinds :
                  cur.id.name \in NearestRecord(c)[k] <=> k = LiteralKind(cur.init)

\* ------------------------------------------------- walks of const programs
\* The walks of the programs whose declarators are const declarators of the
\* one declared name and whose usages are attributes passing that name.

\* const a = [] and const a = {}.
ConstLiteral ==
    \E name \in DeclaredNames, init \in {ArrayExpression, ObjectExpression} :
        VariableDeclarator("const", name, init)

\* const a = 0
ConstScalar ==
    \E name \in DeclaredNames : VariableDeclarator("const", name, Literal)

\* <Foo bar={a} />
IdentifierAttribute ==
    \E name \in DeclaredNames :
        JSXAttribute(FALSE, JSXExpressionContainer(Identifier(name)))

NextConst ==
    \/ BlockStatement
    \/ Leave
    \/ ConstLiteral
    \/ ConstScalar
    \/ IdentifierAttribute

SpecConst == Init /\ [][NextConst]_vars

\* ------------------------------------------------------------------ C11
\* The callbacks driven directly, as by a harness that holds the object that
\* `create` returns: besides walking, the driver may call BlockStatement(node)
\* once more for a block that is open, whose start already has a record.
BlockStatementAgain ==
    /\ \E node \in AncestorBlocks :
          /\ blockVariableNameSets' =
                [c \in Configurations |->
                    IF thrown[c] THEN blockVariableNameSets[c]
                    ELSE BlockStatementSets(blockVariableNameSets[c], node)]
          /\ cur' = node
    /\ UNCHANGED <<ancestors, offset, reports, thrown, visited>>

NextDirect ==
    \/ NextConst
    \/ BlockStatementAgain

SpecDirect == Init /\ [][NextDirect]_vars

\* The record of a block that holds no name.
EmptyRecord == [array |-> {}, object |-> {}]

\* C11: BlockStatement(node) for a start without a record creates an empty
\* record for it; for a start that has a record it raises an error in the
\* instance, and neither replaces the record nor passes silently.
C11_SecondEntryFails ==
    [][\A c \in Configurations :
          (Running(c) /\ cur'.type = "BlockStatement") =>
              IF cur'.start \in DOMAIN blockVariableNameSets[c]
              THEN thrown'[c]
              ELSE /\ blockVariableNameSets'[c][cur'.start] = EmptyRecord
                   /\ ~thrown'[c]]_vars

\* ------------------------------------------------------------------ C12
\* The entries of a registry: the (block, kind, name) it holds.
Recorded(sets) ==
    {x \in [block : DOMAIN sets, kind : Kinds, name : Names] :
        x.name \in sets[x.block][x.kind]}

\* The entries that the step adds to the registry of instance c.
Gained(c) == Recorded(blockVariableNameSets'[c]) \ Recorded(blockVariableNameSets[c])

\* The step dispatches the callback of a usage (an attribute or a call).
UsageStep == cur'.type \in {"JSXAttribute", "CallExpression"}

\* C12: the callback of a let or var declarator changes no record, whatever
\* its initializer; a step that adds a name to a record is the callback of a
\* const declarator; and an identifier used at a property-value site is
\* reported only if, when its callback runs, the record of an enclosing block
\* holds its name.
C12_OnlyConstRecords ==
    [][\A c \in Configurations : Running(c) =>
          /\ (cur'.type = "VariableDeclarator" /\ cur'.parent.kind # "const")
                => blockVariableNameSets'[c] = blockVariableNameSets[c]
          /\ Gained(c) # {}
                => (cur'.type = "VariableDeclarator" /\ cur'.parent.kind = "const")
          /\ UsageStep =>
                \A s \in CurSites' :
                    (s.value.type = "Identifier" /\ SiteReports(c, s.site)' # << >>)
                    => Holding(c, AncestorBlocks, s.value.name) # {}]_vars

\* The callback of let a = [] or var a = [] has run inside a block that was
\* entered after an outer one, and no record of the default instance holds a
\* name.
C12_Witness ==
    /\ Running(Defaults)
    /\ cur.type = "VariableDeclarator"
    /\ cur.parent.kind \in {"let", "var"}
    /\ cur.init = ArrayExpression
    /\ Cardinality(AncestorBlocks) = 2
    /\ Recorded(blockVariableNameSets[Defaults]) = {}

\* ------------------------------------------------------------------ C13
\* C13: the callback of a declarator that no block encloses changes no
\* record; a name is added only to the record of a block that encloses the
\* declarator; and an identifier used at a property-value site, at top level
\* or inside blocks, is not reported when no record of an enclosing block
\* holds its name.
C13_TopLevelNeverRecorded ==
    [][\A c \in Configurations : Running(c) =>
          /\ (cur'.type = "VariableDeclarator" /\ AncestorBlocks = {})
                => blockVariableNameSets'[c] = blockVariableNameSets[c]
          /\ \A x \in Gained(c) : \E b \in AncestorBlocks : b.start = x.block
          /\ UsageStep =>
                \A s \in CurSites' :
                    (/\ s.value.type = "Identifier"
                     /\ Holding(c, AncestorBlocks, s.value.name) = {})
                    => SiteReports(c, s.site)' = << >>]_vars

\* The callback of a top-level const a = [] has run after a block was entered
\* and left, and no record of the default instance holds a name.
C13_Witness ==
    /\ Running(Defaults)
    /\ cur.type = "VariableDeclarator"
    /\ cur.parent.kind = "const"
    /\ cur.init = ArrayExpression
    /\ AncestorBlocks = {}
    /\ EnteredBlocks(Defaults) # {}
    /\ Recorded(blockVariableNameSets[Defaults]) = {}

\* ------------------------------------------------------------------ C14
\* The expressions that are no conditional: [], {} and a.
Operands == {ArrayExpression, ObjectExpression, Identifier("a")}

\* The expressions whose conditionals nest at most depth deep, a conditional
\* having at most one conditional among its test, consequent and alternate.
RECURSIVE NestedExprs(_)
NestedExprs(depth) ==
    IF depth = 0 THEN Operands
    ELSE LET inner == NestedExprs(depth - 1) \ Operands
         IN  Operands
             \cup {ConditionalExpression(t, c, a) : t \in Operands, c \in Operands, a \in Operands}
             \cup {ConditionalExpression(n, c, a) : n \in inner, c \in Operands, a \in Operands}
             \cup {ConditionalExpression(t, n, a) : t \in Operands, n \in inner, a \in Operands}
             \cup {ConditionalExpression(t, c, n) : t \in Operands, c \in Operands, n \in inner}

\* The walk of a program that is one attribute, <Foo bar={expr} />: the
\* attribute callback applies the classifier to expr in every instance.
ClassifyAttribute ==
    /\ visited.usages = 0
    /\ \E expr \in NestedExprs(MaxNesting) :
          JSXAttribute(FALSE, JSXExpressionContainer(expr))

NextClassifier == ClassifyAttribute

SpecClassifier == Init /\ [][NextClassifier]_vars

\* The operands of e from left to right: those of the test, then those of the
\* consequent, then those of the alternate.
RECURSIVE OperandsOf(_)
OperandsOf(e) ==
    IF e.type = "ConditionalExpression"
    THEN OperandsOf(e.test) \o OperandsOf(e.consequent) \o OperandsOf(e.alternate)
    ELSE <<e>>

\* The kind of the leftmost operand that configuration c disallows, if any.
RECURSIVE FirstDisallowed(_, _)
FirstDisallowed(c, operands) ==
    IF operands = << >> THEN NoViolation
    ELSE IF Disallowed(c, Head(operands)) THEN LiteralKind(Head(operands))
    ELSE FirstDisallowed(c, Tail(operands))

\* C14: the classifier gives a conditional the first kind that its test, its
\* consequent and its alternate give, in that order and through nested
\* conditionals, which is the kind of the leftmost operand that is an array
\* literal with allowArrays false or an object literal with allowObjects
\* false, and none when there is no such operand (as for an identifier); the
\* attribute is reported with that kind, or not at all.
C14_ClassifierFirstKind ==
    cur.type = "JSXAttribute" =>
        \A c \in Configurations :
            LET e == cur.value.expression
                kind == FirstDisallowed(c, OperandsOf(e))
            IN  /\ getNodeViolationType(c, e) = kind
                /\ e.type \notin {"ConditionalExpression", "ArrayExpression", "ObjectExpression"}
                      => getNodeViolationType(c, e) = NoViolation
                /\ e.type = "ArrayExpression"
                      => getNodeViolationType(c, e) = IF c.allowArrays THEN NoViolation ELSE "array"
                /\ e.type = "ObjectExpression"
                      => getNodeViolationType(c, e) = IF c.allowObjects THEN NoViolation ELSE "object"
                /\ reports[c] = IF kind = NoViolation THEN << >>
                                ELSE <<Report(cur.start, kind, cur.start)>>

\* a ? a : (a ? a : {}) was classified: its test, its consequent and the test
\* and consequent of the nested alternate give none, and the default instance
\* reported an object.
C14_Witness ==
    /\ cur.type = "JSXAttribute"
    /\ cur.value.expression =
          ConditionalExpression(Identifier("a"), Identifier("a"),
              ConditionalExpression(Identifier("a"), Identifier("a"), ObjectExpression))
    /\ reports[Defaults] = <<Report(cur.start, "object", cur.start)>>
    /\ reports[With(Defaults, "allowObjects", TRUE)] = << >>

\* ------------------------------------------------------------------ C15
\* reports[c] before the step is an initial part of reports[c] after it.
ReportsKept(c) ==
    /\ Len(reports[c]) <= Len(reports'[c])
    /\ SubSeq(reports'[c], 1, Len(reports[c])) = reports[c]

\* C15: a site's outcome is fixed when its callback runs.  An identifier used
\* at a property-value site that is not skipped is reported if and only if
\* the record of an enclosing block holds its name before the callback runs,
\* that is, a const declarator visited earlier recorded it; the callback of a
\* declarator reports nothing, and no step takes a report back or reports for
\* a site visited earlier.
C15_ResolvedAtVisit ==
    [][\A c \in Configurations : Running(c) =>
          /\ ReportsKept(c)
          /\ \A i \in Len(reports[c]) + 1 .. Len(reports'[c]) :
                UsageStep /\ \E s \in CurSites' : reports'[c][i].site = s.site
          /\ cur'.type = "VariableDeclarator" => reports'[c] = reports[c]
          /\ UsageStep =>
                \A s \in CurSites' : (s.value.type = "Identifier" /\ ~Skipped(c, s)) =>
                    (SiteReports(c, s.site)' # << >>
                        <=> Holding(c, AncestorBlocks, s.value.name) # {})]_vars

\* The walk of function f() { <Foo bar={a} />; const a = ...; <Foo bar={a} /> }:
\* a block at offset 1 holding, in this order, a use of a, the one declarator
\* and a second use of a (had the declarator come first, both uses would be
\* reported).  The first use was not reported and the second one is.
C15_Witness ==
    /\ Running(Defaults)
    /\ cur.type = "JSXAttribute"
    /\ cur.start = 4
    /\ ancestors = <<Program, [type |-> "BlockStatement", start |-> 1]>>
    /\ visited = [declarators |-> 1, usages |-> 2]
    /\ Len(reports[Defaults]) = 1
    /\ reports[Defaults][1].site = cur.start

\* ------------------------------------------------------------------ C16
\* C16: in every instance that is walking, every block statement open around
\* the node being visited has a record, so the record a declarator writes to
\* (that of its nearest block) and the records a usage looks through (those
\* of its enclosing blocks) all exist.
C16_OpenBlocksHaveRecords ==
    \A c \in Configurations : Running(c) =>
        \A i \in DOMAIN getBlockStatementAncestors(ancestors) :
            getBlockStatementAncestors(ancestors)[i].start \in DOMAIN blockVariableNameSets[c]

\* A use of a inside two nested blocks went through the record of the inner
\* block, which does not hold a, to that of the outer one, which does.
C16_Witness ==
    /\ Running(Defaults)
    /\ Len(getBlockStatementAncestors(ancestors)) = 2
    /\ \E s \in CurSites :
          /\ s.value.type = "Identifier"
          /\ Holding(Defaults, AncestorBlocks, s.value.name) # {}
          /\ Innermost(AncestorBlocks) \notin Holding(Defaults, AncestorBlocks, s.value.name)
          /\ SiteReports(Defaults, s.site) # << >>

\* ------------------------------------------------------------------ C17
\* C17: the attribute callback raises no error in any instance, whatever the
\* value of the attribute: once it has run on an attribute whose value is an
\* expression container, a string literal or absent, the instance is still
\* walking, and for the last two it has made no report for the attribute.
C17_AttributeNeverThrows ==
    cur.type = "JSXAttribute" =>
        \A c \in Configurations :
            /\ ~thrown[c]
            /\ cur.value.type # "JSXExpressionContainer" => SiteReports(c, cur.start) = << >>

\* ------------------------------------------------------------------ C18
\* C18: the callback of an attribute or of a call, whether it reports or not,
\* leaves every record of every instance as it was: the same blocks, each
\* holding the same names under the same kinds.
C18_UsageKeepsRegistry ==
    [][UsageStep =>
          \A c \in Configurations :
              /\ DOMAIN blockVariableNameSets'[c] = DOMAIN blockVariableNameSets[c]
              /\ \A b \in DOMAIN blockVariableNameSets[c] :
                    blockVariableNameSets'[c][b] = blockVariableNameSets[c][b]]_vars

\* The name a, held by the record of an enclosing block, was used twice, and
\* the second use was reported like the first.
C18_Witness ==
    /\ Running(Defaults)
    /\ visited.usages = 2
    /\ Len(reports[Defaults]) = 2
    /\ reports[Defaults][1].message = reports[Defaults][2].message
    /\ \E s \in CurSites :
          /\ s.value = Identifier("a")
          /\ Holding(Defaults, AncestorBlocks, "a") # {}
          /\ SiteReports(Defaults, s.site) = <<reports[Defaults][2]>>

\* ------------------------------------------------------------------ C19
\* C19: the registry starts empty and a record is created empty, and every
\* step that adds a name to a record under a kind is the callback of a const
\* declarator of that name, adds it to the record of the declarator's nearest
\* enclosing block and to no other, under the kind its initializer classifies
\* as in the instance's configuration.
C19_RecordedByNearestConst ==
    [][\A c \in Configurations :
          \A x \in Gained(c) :
              /\ cur'.type = "VariableDeclarator"
              /\ cur'.parent.kind = "const"
              /\ cur'.id.name = x.name
              /\ AncestorBlocks # {}
              /\ x.block = Innermost(AncestorBlocks).start
              /\ x.kind = FirstDisallowed(c, OperandsOf(cur'.init))]_vars

\* const a = {} was visited inside two nested blocks: the record of the inner
\* block holds a as an object and that of the outer block holds nothing.
C19_Witness ==
    /\ Running(Defaults)
    /\ ConstInBlock
    /\ cur.init = ObjectExpression
    /\ Cardinality(AncestorBlocks) = 2
    /\ Recorded(blockVariableNameSets[Defaults])
          = {[block |-> Innermost(AncestorBlocks).start, kind |-> "object", name |-> cur.id.name]}

\* ------------------------------------------------------------------ C20
\* C20: the callback of a declarator whose initializer is no disallowed
\* literal (and holds none) changes no record, so it leaves no trace that the
\* name was declared again; and an identifier used at a property-value site
\* that is not skipped, whose name the record of some enclosing block holds,
\* gets exactly one report, of a kind under which the innermost such block
\* holds the name, whatever was declared in the blocks nearer to the site.
C20_RedeclarationDoesNotStopSearch ==
    [][\A c \in Configurations : Running(c) =>
          /\ (/\ cur'.type = "VariableDeclarator"
              /\ FirstDisallowed(c, OperandsOf(cur'.init)) = NoViolation)
                => blockVariableNameSets'[c] = blockVariableNameSets[c]
          /\ UsageStep =>
                \A s \in CurSites' :
                    (/\ s.value.type = "Identifier"
                     /\ ~Skipped(c, s)
                     /\ Holding(c, AncestorBlocks, s.value.name) # {})
                    => /\ Len(SiteReports(c, s.site)') = 1
                       /\ \E k \in Kinds :
                             /\ SiteReports(c, s.site)'[1].message = violationMessageStore[k]
                             /\ s.value.name \in blockVariableNameSets[c][
                                   Innermost(Holding(c, AncestorBlocks, s.value.name)).start][k]]_vars

\* The walk of function f() { const a = {}; { const a = 0; <Foo bar={a} /> } }:
\* a block at offset 1, a declarator, a block at offset 3, a second declarator
\* and the attribute.  The second declarator, inside the inner block, recorded
\* nothing, and the use of a was reported with the kind the outer record holds.
C20_Witness ==
    /\ Running(Defaults)
    /\ cur.type = "JSXAttribute"
    /\ cur.start = 5
    /\ ancestors = <<Program, [type |-> "BlockStatement", start |-> 1],
                     [type |-> "BlockStatement", start |-> 3]>>
    /\ visited = [declarators |-> 2, usages |-> 1]
    /\ Recorded(blockVariableNameSets[Defaults])
          = {[block |-> 1, kind |-> "object", name |-> "a"]}
    /\ reports[Defaults] = <<Report(cur.start, "object", cur.start)>>

=============================================================================
